---- MODULE Spec2Model ----
(***************************************************************************)
(* Receipt-field extraction engine of backend/services/ocr_service.py and  *)
(* the /api/ocr upload route of backend/routes/user.py.                    *)
(*                                                                         *)
(* A text is a sequence of characters; a character is a one-element        *)
(* string.  The three non-ASCII currency symbols of the amount patterns    *)
(* are written "INR", "EUR" and "GBP"; each stands for one character.      *)
(***************************************************************************)
EXTENDS Integers, Sequences, FiniteSets, TLC

VARIABLES pc, upload, http, image, full_text, result, exc, invoked, calls

vars == <<pc, upload, http, image, full_text, result, exc, invoked, calls>>

\* Python's None: no text is this value, a text being a sequence of single
\* characters
None == <<"None">>

(***************************************************************************)
(* Characters and the str / re primitives the extractors use.              *)
(***************************************************************************)
LowerAlpha == <<"a","b","c","d","e","f","g","h","i","j","k","l","m",
                "n","o","p","q","r","s","t","u","v","w","x","y","z">>
UpperAlpha == <<"A","B","C","D","E","F","G","H","I","J","K","L","M",
                "N","O","P","Q","R","S","T","U","V","W","X","Y","Z">>
DigitChars == <<"0","1","2","3","4","5","6","7","8","9">>

Range(f) == {f[i] : i \in DOMAIN f}

\* the character classes [a-zA-Z], \d, \s, \w and [\$₹€£] of the patterns
LowerChars == Range(LowerAlpha)
UpperChars == Range(UpperAlpha)
Alpha == LowerChars \cup UpperChars
Digit == Range(DigitChars)
Space == {" ", "\n", "\t", "\r"}
WordChars == Alpha \cup Digit \cup {"_"}
Currency == {"$", "INR", "EUR", "GBP"}

IsLower(c) == c \in LowerChars
IsUpper(c) == c \in UpperChars
IsAlpha(c) == c \in Alpha
IsDigit(c) == c \in Digit
IsSpace(c) == c \in Space
IsWordChar(c) == c \in WordChars
IsCurrency(c) == c \in Currency

DigitValue == [c \in Digit |-> (CHOOSE i \in 1..10 : DigitChars[i] = c) - 1]
DigitVal(c) == DigitValue[c]

\* str.lower / str.upper on one character
ToLower == [c \in UpperChars |-> LowerAlpha[CHOOSE i \in 1..26 : UpperAlpha[i] = c]]
ToUpper == [c \in LowerChars |-> UpperAlpha[CHOOSE i \in 1..26 : LowerAlpha[i] = c]]
Lower(c) == IF IsUpper(c) THEN ToLower[c] ELSE c
Upper(c) == IF IsLower(c) THEN ToUpper[c] ELSE c

\* str.lower()
LowerStr(s) == <<>> \o [i \in 1..Len(s) |-> Lower(s[i])]

\* s[i:] starts with the lower-case literal lit, compared as re.IGNORECASE
\* does
LitAtI(s, i, lit) ==
  /\ i >= 1
  /\ i + Len(lit) - 1 <= Len(s)
  /\ Lower(s[i]) = lit[1]
  /\ \A k \in 2..Len(lit) : Lower(s[i + k - 1]) = lit[k]

\* s[i:].startswith(lit)
LitAt(s, i, lit) ==
  /\ i >= 1
  /\ i + Len(lit) - 1 <= Len(s)
  /\ SubSeq(s, i, i + Len(lit) - 1) = lit

\* kw in s
Contains(s, kw) ==
  \E i \in 1..(Len(s) - Len(kw) + 1) : s[i] = kw[1] /\ SubSeq(s, i, i + Len(kw) - 1) = kw

\* index one past the longest run, starting at i, of characters of s that
\* are in class (a greedy [class]* of a regular expression)
RECURSIVE RunEnd(_, _, _)
RunEnd(s, i, class) ==
  IF i >= 1 /\ i <= Len(s) /\ s[i] \in class THEN RunEnd(s, i + 1, class) ELSE i

Min(S) == CHOOSE i \in S : \A j \in S : i <= j

\* the least i in lo..hi with P(i), or 0 (re.search tries start positions
\* from the left)
FirstPos(lo, hi, P(_)) ==
  LET S == {i \in lo..hi : P(i)} IN IF S = {} THEN 0 ELSE Min(S)

\* str.strip()
RECURSIVE LStrip(_)
LStrip(s) == IF s # <<>> /\ IsSpace(Head(s)) THEN LStrip(Tail(s)) ELSE s
RECURSIVE RStrip(_)
RStrip(s) ==
  IF s # <<>> /\ IsSpace(s[Len(s)]) THEN RStrip(SubSeq(s, 1, Len(s) - 1)) ELSE s
Strip(s) == RStrip(LStrip(s))

\* s[:n]
Truncate(s, n) == IF Len(s) > n THEN SubSeq(s, 1, n) ELSE s

\* str.split('\n')
RECURSIVE SplitLines(_)
SplitLines(s) ==
  LET nl == FirstPos(1, Len(s), LAMBDA i : s[i] = "\n")
  IN  IF nl = 0 THEN <<s>>
      ELSE <<SubSeq(s, 1, nl - 1)>> \o SplitLines(SubSeq(s, nl + 1, Len(s)))

\* the characters of s that are in class, in order
Filter(s, class) == SelectSeq(s, LAMBDA c : c \in class)

\* str.replace(ch, '')
Remove(s, ch) == SelectSeq(s, LAMBDA c : c # ch)

(***************************************************************************)
(* Decimal strings as numbers.  float() is modelled exactly on strings of  *)
(* digits with at most one point; values are compared digit by digit so    *)
(* that no integer of the model grows with the length of a token.          *)
(***************************************************************************)
\* str(n) for n >= 0
RECURSIVE IntToStr(_)
IntToStr(n) ==
  IF n < 10 THEN <<DigitChars[n + 1]>>
  ELSE IntToStr(n \div 10) \o <<DigitChars[(n % 10) + 1]>>

\* int(s) for a short run of digits
RECURSIVE StrToInt(_)
StrToInt(s) ==
  IF s = <<>> THEN 0
  ELSE 10 * StrToInt(SubSeq(s, 1, Len(s) - 1)) + DigitVal(s[Len(s)])

\* str.replace(',', '')
RemoveCommas(s) == Remove(s, ",")

CountChar(s, ch) == Cardinality({i \in 1..Len(s) : s[i] = ch})

\* float(a) does not raise ValueError: a is digits with at most one point
IsFloat(a) ==
  /\ \E i \in 1..Len(a) : IsDigit(a[i])
  /\ \A i \in 1..Len(a) : IsDigit(a[i]) \/ a[i] = "."
  /\ CountChar(a, ".") <= 1

RECURSIVE StripLeadingZeros(_)
StripLeadingZeros(s) ==
  IF s # <<>> /\ Head(s) = "0" THEN StripLeadingZeros(Tail(s)) ELSE s
RECURSIVE StripTrailingZeros(_)
StripTrailingZeros(s) ==
  IF s # <<>> /\ s[Len(s)] = "0"
  THEN StripTrailingZeros(SubSeq(s, 1, Len(s) - 1)) ELSE s

PointPos(a) == FirstPos(1, Len(a), LAMBDA i : a[i] = ".")
\* the digits before and after the point, without the zeros that do not
\* change the value
IntDigits(a) ==
  StripLeadingZeros(IF PointPos(a) = 0 THEN a ELSE SubSeq(a, 1, PointPos(a) - 1))
FracDigits(a) ==
  StripTrailingZeros(IF PointPos(a) = 0 THEN <<>>
                     ELSE SubSeq(a, PointPos(a) + 1, Len(a)))

\* x before y in dictionary order of their digits
RECURSIVE LexLess(_, _)
LexLess(x, y) ==
  IF y = <<>> THEN FALSE
  ELSE IF x = <<>> THEN TRUE
  ELSE IF Head(x) # Head(y) THEN DigitVal(Head(x)) < DigitVal(Head(y))
  ELSE LexLess(Tail(x), Tail(y))

\* float(a) < float(b)
FloatLess(a, b) ==
  IF Len(IntDigits(a)) # Len(IntDigits(b))
  THEN Len(IntDigits(a)) < Len(IntDigits(b))
  ELSE IF IntDigits(a) # IntDigits(b) THEN LexLess(IntDigits(a), IntDigits(b))
  ELSE LexLess(FracDigits(a), FracDigits(b))

AmountLimit == 1000000

\* 0 < float_amount < 1000000
AmountInRange(a) ==
  FloatLess(<<"0">>, a) /\ FloatLess(a, IntToStr(AmountLimit))

(***************************************************************************)
(* _extract_amount                                                         *)
(***************************************************************************)
\* The five patterns, in list order.  label is the literal words of the
\* pattern, which \s* separates; a pattern with no label is the bare
\* currency-symbol pattern, whose symbol is not optional.
\* amount_patterns with the bare currency-symbol pattern tried first
amount_patterns_symbol_first ==
  << [label |-> << >>],
     [label |-> << <<"t","o","t","a","l">> >>],
     [label |-> << <<"a","m","o","u","n","t">> >>],
     [label |-> << <<"g","r","a","n","d">>, <<"t","o","t","a","l">> >>],
     [label |-> << <<"b","a","l","a","n","c","e">> >>] >>

\* amount_patterns with the label amount tried before the label total
amount_patterns_amount_first ==
  << [label |-> << <<"a","m","o","u","n","t">> >>],
     [label |-> << <<"t","o","t","a","l">> >>],
     [label |-> << <<"g","r","a","n","d">>, <<"t","o","t","a","l">> >>],
     [label |-> << <<"b","a","l","a","n","c","e">> >>],
     [label |-> << >>] >>

amount_patterns ==
  << [label |-> << <<"t","o","t","a","l">> >>],
     [label |-> << <<"a","m","o","u","n","t">> >>],
     [label |-> << <<"g","r","a","n","d">>, <<"t","o","t","a","l">> >>],
     [label |-> << <<"b","a","l","a","n","c","e">> >>],
     [label |-> << >>] >>

\* index one past the label words matched at i, or 0
RECURSIVE LabelEnd(_, _, _)
LabelEnd(s, i, words) ==
  IF words = <<>> THEN i
  ELSE IF ~LitAtI(s, i, Head(words)) THEN 0
  ELSE IF Tail(words) = <<>> THEN i + Len(Head(words))
  ELSE LabelEnd(s, RunEnd(s, i + Len(Head(words)), Space), Tail(words))

\* where the group (\d+...) starts when pattern p matches at i, or 0
GroupStart(s, i, p) ==
  IF p.label = <<>>
  THEN \* [\$₹€£]\s*(
       IF IsCurrency(s[i]) THEN RunEnd(s, i + 1, Space) ELSE 0
  ELSE \* label[:\s]*[\$₹€£]?\s*(
       LET e  == LabelEnd(s, i, p.label)
           k1 == RunEnd(s, e, Space \cup {":"})
           k2 == IF k1 <= Len(s) /\ IsCurrency(s[k1]) THEN k1 + 1 ELSE k1
       IN  IF e = 0 THEN 0 ELSE RunEnd(s, k2, Space)

\* index one past (\d+[,.]?\d*\.?\d*) matched at j, or 0 when s[j] is no digit
GroupEnd(s, j) ==
  IF ~(j >= 1 /\ j <= Len(s) /\ IsDigit(s[j])) THEN 0
  ELSE LET e1 == RunEnd(s, j, Digit)
           e2 == IF e1 <= Len(s) /\ s[e1] \in {",", "."} THEN e1 + 1 ELSE e1
           e3 == RunEnd(s, e2, Digit)
           e4 == IF e3 <= Len(s) /\ s[e3] = "." THEN e3 + 1 ELSE e3
       IN  RunEnd(s, e4, Digit)

PatternMatchesAt(s, i, p) == GroupEnd(s, GroupStart(s, i, p)) # 0

\* re.search(pattern, text, re.IGNORECASE | re.MULTILINE), trying the start
\* positions from i on: the start of the leftmost match, or 0
AmountSearchFrom(s, i, p) ==
  LET starts == {j \in i..Len(s) : PatternMatchesAt(s, j, p)}
  IN  IF starts = {} THEN 0 ELSE Min(starts)

AmountSearch(s, p) == AmountSearchFrom(s, 1, p)

\* match.group(1) of the match that starts at i
AmountGroup(s, i, p) ==
  SubSeq(s, GroupStart(s, i, p), GroupEnd(s, GroupStart(s, i, p)) - 1)

\* \b at index i: between s[i-1] and s[i]
WordBoundary(s, i) ==
  LET before == i > 1 /\ IsWordChar(s[i - 1])
      after  == i <= Len(s) /\ IsWordChar(s[i])
  IN  before # after

\* index one past \b(\d+\.\d{2})\b matched at i, or 0
MoneyEnd(s, i) ==
  LET e == RunEnd(s, i, Digit)
  IN  IF /\ e > i
         /\ WordBoundary(s, i)
         /\ e + 2 <= Len(s)
         /\ s[e] = "."
         /\ IsDigit(s[e + 1]) /\ IsDigit(s[e + 2])
         /\ WordBoundary(s, e + 3)
      THEN e + 3 ELSE 0

\* re.findall(r'\b(\d+\.\d{2})\b', text) from index i on
RECURSIVE FindAllMoney(_, _)
FindAllMoney(s, i) ==
  LET starts == {j \in i..Len(s) : MoneyEnd(s, j) # 0}
  IN  IF starts = {} THEN <<>>
      ELSE <<SubSeq(s, Min(starts), MoneyEnd(s, Min(starts)) - 1)>>
           \o FindAllMoney(s, MoneyEnd(s, Min(starts)))

\* max(amounts, key=float): the first of the greatest
RECURSIVE MaxByFloat(_)
MaxByFloat(amounts) ==
  IF Len(amounts) = 1 THEN amounts[1]
  ELSE LET front == MaxByFloat(SubSeq(amounts, 1, Len(amounts) - 1))
           last  == amounts[Len(amounts)]
       IN  IF FloatLess(front, last) THEN last ELSE front

\* the fallback without the max: the first token
amount_fallback_first(text) ==
  LET amounts == FindAllMoney(text, 1)
  IN  IF amounts # <<>> THEN amounts[1] ELSE None

\* lines 128-133: the fallback over the two-decimal tokens
amount_fallback(text) ==
  LET amounts == FindAllMoney(text, 1)
  IN  IF amounts # <<>> THEN MaxByFloat(amounts) ELSE None

\* amount_from with a search that ends at the first pattern that matches,
\* whether its value validates or not
RECURSIVE amount_from_first_match_only(_, _)
amount_from_first_match_only(text, k) ==
  IF k > Len(amount_patterns) THEN amount_fallback(text)
  ELSE LET p      == amount_patterns[k]
           at     == AmountSearch(text, p)
           amount == RemoveCommas(AmountGroup(text, at, p))
       IN  IF at = 0 THEN amount_from_first_match_only(text, k + 1)
           ELSE IF IsFloat(amount) /\ AmountInRange(amount) THEN amount
           ELSE None

\* amount_from with the two-decimal tokens tried before the patterns
RECURSIVE amount_from_tokens_first(_, _)
amount_from_tokens_first(text, k) ==
  IF amount_fallback(text) # None THEN amount_fallback(text)
  ELSE IF k > Len(amount_patterns) THEN None
  ELSE LET p      == amount_patterns[k]
           at     == AmountSearch(text, p)
           amount == RemoveCommas(AmountGroup(text, at, p))
       IN  IF at # 0 /\ IsFloat(amount) /\ AmountInRange(amount)
           THEN amount
           ELSE amount_from_tokens_first(text, k + 1)

\* lines 117-126, from pattern k on, then the fallback
RECURSIVE amount_from(_, _)
amount_from(text, k) ==
  IF k > Len(amount_patterns) THEN amount_fallback(text)
  ELSE LET p      == amount_patterns[k]
           at     == AmountSearch(text, p)
           amount == RemoveCommas(AmountGroup(text, at, p))
       IN  IF at # 0 /\ IsFloat(amount) /\ AmountInRange(amount)
           THEN amount
           ELSE amount_from(text, k + 1)

extract_amount(text) == amount_from(text, 1)

(***************************************************************************)
(* _extract_category and _extract_payment_method                           *)
(***************************************************************************)
categories ==
  << [name |-> "Food", keywords |->
      << <<"r", "e", "s", "t", "a", "u", "r", "a", "n", "t">>,
         <<"c", "a", "f", "e">>,
         <<"c", "o", "f", "f", "e", "e">>,
         <<"f", "o", "o", "d">>,
         <<"d", "i", "n", "i", "n", "g">>,
         <<"m", "e", "a", "l">>,
         <<"b", "r", "e", "a", "k", "f", "a", "s", "t">>,
         <<"l", "u", "n", "c", "h">>,
         <<"d", "i", "n", "n", "e", "r">>,
         <<"p", "i", "z", "z", "a">>,
         <<"b", "u", "r", "g", "e", "r">>,
         <<"k", "i", "t", "c", "h", "e", "n">>,
         <<"g", "r", "i", "l", "l">>,
         <<"b", "i", "s", "t", "r", "o">> >>],
     [name |-> "Transportation", keywords |->
      << <<"t", "a", "x", "i">>,
         <<"u", "b", "e", "r">>,
         <<"l", "y", "f", "t">>,
         <<"o", "l", "a">>,
         <<"f", "u", "e", "l">>,
         <<"g", "a", "s">>,
         <<"p", "e", "t", "r", "o", "l">>,
         <<"p", "a", "r", "k", "i", "n", "g">>,
         <<"t", "o", "l", "l">>,
         <<"m", "e", "t", "r", "o">>,
         <<"t", "r", "a", "i", "n">>,
         <<"f", "l", "i", "g", "h", "t">>,
         <<"b", "u", "s">> >>],
     [name |-> "Accommodation", keywords |->
      << <<"h", "o", "t", "e", "l">>,
         <<"m", "o", "t", "e", "l">>,
         <<"a", "c", "c", "o", "m", "m", "o", "d", "a", "t", "i", "o", "n">>,
         <<"l", "o", "d", "g", "i", "n", "g">>,
         <<"a", "i", "r", "b", "n", "b">>,
         <<"r", "e", "s", "o", "r", "t">> >>],
     [name |-> "Office Supplies", keywords |->
      << <<"o", "f", "f", "i", "c", "e">>,
         <<"s", "u", "p", "p", "l", "i", "e", "s">>,
         <<"s", "t", "a", "t", "i", "o", "n", "e", "r", "y">>,
         <<"p", "r", "i", "n", "t", "e", "r">>,
         <<"p", "a", "p", "e", "r">> >>],
     [name |-> "Entertainment", keywords |->
      << <<"m", "o", "v", "i", "e">>,
         <<"c", "i", "n", "e", "m", "a">>,
         <<"t", "h", "e", "a", "t", "e", "r">>,
         <<"e", "n", "t", "e", "r", "t", "a", "i", "n", "m", "e", "n", "t">>,
         <<"s", "h", "o", "w">> >>],
     [name |-> "Medical", keywords |->
      << <<"p", "h", "a", "r", "m", "a", "c", "y">>,
         <<"m", "e", "d", "i", "c", "a", "l">>,
         <<"h", "o", "s", "p", "i", "t", "a", "l">>,
         <<"c", "l", "i", "n", "i", "c">>,
         <<"d", "o", "c", "t", "o", "r">>,
         <<"m", "e", "d", "i", "c", "i", "n", "e">> >>],
     [name |-> "Utilities", keywords |->
      << <<"e", "l", "e", "c", "t", "r", "i", "c">>,
         <<"w", "a", "t", "e", "r">>,
         <<"i", "n", "t", "e", "r", "n", "e", "t">>,
         <<"p", "h", "o", "n", "e">>,
         <<"u", "t", "i", "l", "i", "t", "y">> >>] >>

\* payment_methods with UPI moved to the front of the table
payment_methods_upi_first ==
  << [name |-> "UPI", keywords |->
      << <<"u", "p", "i">>,
         <<"p", "a", "y", "t", "m">>,
         <<"g", "p", "a", "y">>,
         <<"p", "h", "o", "n", "e", "p", "e">>,
         <<"b", "h", "i", "m">> >>],
     [name |-> "Credit Card", keywords |->
      << <<"c", "r", "e", "d", "i", "t">>,
         <<"v", "i", "s", "a">>,
         <<"m", "a", "s", "t", "e", "r", "c", "a", "r", "d">>,
         <<"a", "m", "e", "x">> >>],
     [name |-> "Debit Card", keywords |->
      << <<"d", "e", "b", "i", "t">> >>],
     [name |-> "Cash", keywords |->
      << <<"c", "a", "s", "h">> >>] >>

payment_methods ==
  << [name |-> "Credit Card", keywords |->
      << <<"c", "r", "e", "d", "i", "t">>,
         <<"v", "i", "s", "a">>,
         <<"m", "a", "s", "t", "e", "r", "c", "a", "r", "d">>,
         <<"a", "m", "e", "x">> >>],
     [name |-> "Debit Card", keywords |->
      << <<"d", "e", "b", "i", "t">> >>],
     [name |-> "UPI", keywords |->
      << <<"u", "p", "i">>,
         <<"p", "a", "y", "t", "m">>,
         <<"g", "p", "a", "y">>,
         <<"p", "h", "o", "n", "e", "p", "e">>,
         <<"b", "h", "i", "m">> >>],
     [name |-> "Cash", keywords |->
      << <<"c", "a", "s", "h">> >>] >>

\* first_match with the entry whose keyword comes first in the text winning
first_match_leftmost(text_lower, table, k, default) ==
  LET places == [j \in 1..Len(table) |->
                   {i \in 1..Len(text_lower) :
                      \E n \in 1..Len(table[j].keywords) :
                        LitAt(text_lower, i, table[j].keywords[n])}]
      hits   == {j \in k..Len(table) : places[j] # {}}
  IN  IF hits = {} THEN default
      ELSE table[CHOOSE j \in hits : \A h \in hits : Min(places[j]) <= Min(places[h])].name

\* lines 173-177 and 190-194: the first entry of the table, in table order,
\* one of whose keywords is in text_lower; otherwise the default
RECURSIVE first_match(_, _, _, _)
first_match(text_lower, table, k, default) ==
  IF k > Len(table) THEN default
  ELSE IF \E j \in 1..Len(table[k].keywords) :
            Contains(text_lower, table[k].keywords[j])
       THEN table[k].name
       ELSE first_match(text_lower, table, k + 1, default)

\* _extract_category without text.lower()
extract_category_case_sensitive(text) == first_match(text, categories, 1, "Other")

extract_category(text) == first_match(LowerStr(text), categories, 1, "Other")

\* _extract_payment_method with a default outside the table
extract_payment_method_unknown(text) ==
  first_match(LowerStr(text), payment_methods, 1, "Unknown")

extract_payment_method(text) ==
  first_match(LowerStr(text), payment_methods, 1, "Cash")

(***************************************************************************)
(* _extract_date: the three patterns, datetime.strptime and strftime       *)
(***************************************************************************)
MonthNames ==
  << <<"j", "a", "n", "u", "a", "r", "y">>,
     <<"f", "e", "b", "r", "u", "a", "r", "y">>,
     <<"m", "a", "r", "c", "h">>,
     <<"a", "p", "r", "i", "l">>,
     <<"m", "a", "y">>,
     <<"j", "u", "n", "e">>,
     <<"j", "u", "l", "y">>,
     <<"a", "u", "g", "u", "s", "t">>,
     <<"s", "e", "p", "t", "e", "m", "b", "e", "r">>,
     <<"o", "c", "t", "o", "b", "e", "r">>,
     <<"n", "o", "v", "e", "m", "b", "e", "r">>,
     <<"d", "e", "c", "e", "m", "b", "e", "r">> >>

\* the locale's abbreviated month names
MonthAbbr == [m \in 1..12 |-> SubSeq(MonthNames[m], 1, 3)]

ClassSet(cls) ==
  CASE cls = "digit" -> Digit
    [] cls = "sep"   -> {"-", "/"}
    [] cls = "space" -> Space
    [] cls = "alpha" -> Alpha

\* (?:jan|feb|...|dec), re.IGNORECASE, at index i
MonthAbbrAt(s, i) == \E m \in 1..12 : LitAtI(s, i, MonthAbbr[m])

\* Index one past the match at i of a sequence of pattern elements, or 0.
\* An element is a character class repeated min..max times, or the month
\* alternation.  Neighbouring classes are disjoint, so the greedy match of
\* an element that is not the last succeeds exactly when the whole run is
\* within min..max.
RECURSIVE ElemsEnd(_, _, _)
ElemsEnd(s, i, elems) ==
  IF elems = <<>> THEN i
  ELSE LET el == Head(elems) IN
       IF el.cls = "month"
       THEN IF MonthAbbrAt(s, i) THEN ElemsEnd(s, i + 3, Tail(elems)) ELSE 0
       ELSE LET e == RunEnd(s, i, ClassSet(el.cls))
                n == e - i
            IN  IF Tail(elems) = <<>>
                THEN IF n >= el.min
                     THEN i + (IF ~el.open /\ n > el.max THEN el.max ELSE n)
                     ELSE 0
                ELSE IF n >= el.min /\ (el.open \/ n <= el.max)
                     THEN ElemsEnd(s, e, Tail(elems)) ELSE 0

\* a class repeated min..max times, and a class repeated min times or more
El(cls, min, max) == [cls |-> cls, min |-> min, max |-> max, open |-> FALSE]
AtLeast(cls, min) == [cls |-> cls, min |-> min, max |-> min, open |-> TRUE]

date_patterns ==
  << \* (\d{1,2}[-/]\d{1,2}[-/]\d{2,4})
     << El("digit", 1, 2), El("sep", 1, 1), El("digit", 1, 2), El("sep", 1, 1),
        El("digit", 2, 4) >>,
     \* (\d{4}[-/]\d{1,2}[-/]\d{1,2})
     << El("digit", 4, 4), El("sep", 1, 1), El("digit", 1, 2), El("sep", 1, 1),
        El("digit", 1, 2) >>,
     \* (\d{1,2}\s+(?:jan|...|dec)[a-z]*\s+\d{2,4})
     << El("digit", 1, 2), AtLeast("space", 1), El("month", 3, 3),
        AtLeast("alpha", 0), AtLeast("space", 1), El("digit", 2, 4) >> >>

\* re.search(pattern, text, re.IGNORECASE), trying the start positions from
\* i on: the start of the leftmost match, or 0
DateSearchFrom(s, i, pat) ==
  LET starts == {j \in i..Len(s) : ElemsEnd(s, j, pat) # 0}
  IN  IF starts = {} THEN 0 ELSE Min(starts)

DateSearch(s, pat) == DateSearchFrom(s, 1, pat)

\* match.group(0)
DateGroup(s, at, pat) == SubSeq(s, at, ElemsEnd(s, at, pat) - 1)

\* date_formats with each month-day format before its day-month format
date_formats_month_first ==
  << <<"%m", "-", "%d", "-", "%Y">>,
     <<"%d", "-", "%m", "-", "%Y">>,
     <<"%Y", "-", "%m", "-", "%d">>,
     <<"%m", "/", "%d", "/", "%Y">>,
     <<"%d", "/", "%m", "/", "%Y">>,
     <<"%d", " ", "%B", " ", "%Y">>,
     <<"%d", " ", "%b", " ", "%Y">> >>

\* the formats of lines 147-148; a directive or a literal character each
\* date_formats without %Y-%m-%d
date_formats_no_iso ==
  << <<"%d", "-", "%m", "-", "%Y">>,
     <<"%m", "-", "%d", "-", "%Y">>,
     <<"%d", "/", "%m", "/", "%Y">>,
     <<"%m", "/", "%d", "/", "%Y">>,
     <<"%d", " ", "%B", " ", "%Y">>,
     <<"%d", " ", "%b", " ", "%Y">> >>

date_formats ==
  << <<"%d", "-", "%m", "-", "%Y">>,
     <<"%m", "-", "%d", "-", "%Y">>,
     <<"%Y", "-", "%m", "-", "%d">>,
     <<"%d", "/", "%m", "/", "%Y">>,
     <<"%m", "/", "%d", "/", "%Y">>,
     <<"%d", " ", "%B", " ", "%Y">>,
     <<"%d", " ", "%b", " ", "%Y">> >>

IsLeap(y) == (y % 4 = 0 /\ y % 100 # 0) \/ y % 400 = 0

DaysInMonth(y, m) ==
  IF m = 2 THEN (IF IsLeap(y) THEN 29 ELSE 28)
  ELSE IF m \in {4, 6, 9, 11} THEN 30 ELSE 31

\* datetime(y, m, d) does not raise
ValidDate(dt) ==
  /\ dt.y >= 1 /\ dt.y <= 9999
  /\ dt.m >= 1 /\ dt.m <= 12
  /\ dt.d >= 1 /\ dt.d <= DaysInMonth(dt.y, dt.m)

NoDate == [y |-> 0, m |-> 0, d |-> 0]

\* the month whose name in names is exactly w, compared without case, or 0
MonthOf(w, names) ==
  LET ms == {m \in 1..12 : Len(names[m]) = Len(w) /\ LitAtI(w, 1, names[m])}
  IN  IF ms # {} THEN CHOOSE m \in ms : TRUE ELSE 0

\* _strptime's regular expression for the format, matched from index i on
\* with dt the fields found so far: the fields of the match, or NoDate when
\* the expression does not match or leaves data unconverted.
\*   %d  3[0-1]|[1-2]\d|0[1-9]|[1-9]      %m  1[0-2]|0[1-9]|[1-9]
\*   %Y  \d\d\d\d     %B, %b  a month name     ' '  \s+
\* Each numeric directive of these formats is followed by a literal or by
\* the end of the data, so it matches exactly when the whole run of digits
\* is one of its alternatives.
RECURSIVE StrpFrom(_, _, _, _)
StrpFrom(s, i, fmt, dt) ==
  IF fmt = <<>> THEN (IF i = Len(s) + 1 THEN dt ELSE NoDate)
  ELSE LET f    == Head(fmt)
           e    == RunEnd(s, i, Digit)
           run  == SubSeq(s, i, e - 1)
           v    == StrToInt(run)
           a    == RunEnd(s, i, Alpha)
           word == SubSeq(s, i, a - 1)
       IN
       CASE f = "%d" ->
              IF e - i \in {1, 2} /\ v >= 1 /\ v <= 31
              THEN StrpFrom(s, e, Tail(fmt), [dt EXCEPT !.d = v]) ELSE NoDate
         [] f = "%m" ->
              IF e - i \in {1, 2} /\ v >= 1 /\ v <= 12
              THEN StrpFrom(s, e, Tail(fmt), [dt EXCEPT !.m = v]) ELSE NoDate
         [] f = "%Y" ->
              IF e - i >= 4
              THEN StrpFrom(s, i + 4, Tail(fmt),
                            [dt EXCEPT !.y = StrToInt(SubSeq(s, i, i + 3))])
              ELSE NoDate
         [] f = "%B" ->
              IF MonthOf(word, MonthNames) # 0
              THEN StrpFrom(s, a, Tail(fmt), [dt EXCEPT !.m = MonthOf(word, MonthNames)])
              ELSE NoDate
         [] f = "%b" ->
              IF MonthOf(word, MonthAbbr) # 0
              THEN StrpFrom(s, a, Tail(fmt), [dt EXCEPT !.m = MonthOf(word, MonthAbbr)])
              ELSE NoDate
         [] f = " " ->
              IF RunEnd(s, i, Space) > i
              THEN StrpFrom(s, RunEnd(s, i, Space), Tail(fmt), dt) ELSE NoDate
         [] OTHER ->
              IF i <= Len(s) /\ s[i] = f
              THEN StrpFrom(s, i + 1, Tail(fmt), dt) ELSE NoDate

\* datetime.strptime(date_str, fmt); NoDate stands for ValueError
strptime(date_str, fmt) ==
  LET dt == StrpFrom(date_str, 1, fmt, NoDate)
  IN  IF ValidDate(dt) THEN dt ELSE NoDate

\* n in decimal, zero-filled to width w
RECURSIVE ZeroFill(_, _)
ZeroFill(str, w) == IF Len(str) < w THEN ZeroFill(<<"0">> \o str, w) ELSE str

\* dt.strftime('%Y-%m-%d').  The C library formats %Y: it zero-fills the
\* year to four digits on some platforms (pad_year) and not on others
\* (glibc prints the year 999 as "999").
strftime(dt, pad_year) ==
  (IF pad_year THEN ZeroFill(IntToStr(dt.y), 4) ELSE IntToStr(dt.y))
  \o <<"-">> \o ZeroFill(IntToStr(dt.m), 2)
  \o <<"-">> \o ZeroFill(IntToStr(dt.d), 2)

\* lines 147-153: the first format, from format k on, that parses date_str
RECURSIVE parse_from(_, _)
parse_from(date_str, k) ==
  IF k > Len(date_formats) THEN NoDate
  ELSE LET parsed_date == strptime(date_str, date_formats[k])
       IN  IF parsed_date # NoDate THEN parsed_date
           ELSE parse_from(date_str, k + 1)

\* date_from with a search that ends at the first pattern that matches,
\* whether a format parses its match or not
RECURSIVE date_from_first_match_only(_, _, _, _)
date_from_first_match_only(text, k, now, pad_year) ==
  IF k > Len(date_patterns) THEN strftime(now, pad_year)
  ELSE LET pat      == date_patterns[k]
           at       == DateSearch(text, pat)
           date_str == DateGroup(text, at, pat)
           parsed_date == parse_from(date_str, 1)
       IN  IF at = 0 THEN date_from_first_match_only(text, k + 1, now, pad_year)
           ELSE IF parsed_date # NoDate THEN strftime(parsed_date, pad_year)
           ELSE strftime(now, pad_year)

\* lines 143-155, from pattern k on; now is datetime.now()
RECURSIVE date_from(_, _, _, _)
date_from(text, k, now, pad_year) ==
  IF k > Len(date_patterns) THEN strftime(now, pad_year)
  ELSE LET pat      == date_patterns[k]
           at       == DateSearch(text, pat)
           date_str == DateGroup(text, at, pat)
           parsed_date == parse_from(date_str, 1)
       IN  IF at # 0 /\ parsed_date # NoDate
           THEN strftime(parsed_date, pad_year)
           ELSE date_from(text, k + 1, now, pad_year)

extract_date(text, now, pad_year) == date_from(text, 1, now, pad_year)

(***************************************************************************)
(* _extract_description, _extract_employee and _extract_remark             *)
(***************************************************************************)
\* lines[:n]
FirstN(lines, n) == IF Len(lines) > n THEN SubSeq(lines, 1, n) ELSE lines

\* re.match(r'^[\d\s\-/:.]+$', line)
NumericLine(line) ==
  /\ line # <<>>
  /\ \A i \in 1..Len(line) :
       IsDigit(line[i]) \/ IsSpace(line[i]) \/ line[i] \in {"-", "/", ":", "."}

\* re.match(r'^\d{1,2}[-/]\d{1,2}[-/]\d{2,4}$', line)
DateLine(line) == ElemsEnd(line, 1, date_patterns[1]) = Len(line) + 1

\* CleanLine without the substitution
CleanLine_unfiltered(line) == line

\* re.sub(r'[^a-zA-Z0-9\s&\'-]', '', line)
CleanLine(line) == Filter(line, Alpha \cup Digit \cup Space \cup {"&", "'", "-"})

DescriptionLimit == 100

\* lines 200-208 over the lines still to examine
RECURSIVE description_from(_)
description_from(lines) ==
  IF lines = <<>> THEN None
  ELSE LET line       == Strip(Head(lines))
           clean_line == Strip(CleanLine(line))
       IN  IF /\ Len(line) > 3
              /\ ~NumericLine(line)
              /\ ~DateLine(line)
              /\ Len(clean_line) > 3
           THEN Truncate(clean_line, DescriptionLimit)
           ELSE description_from(Tail(lines))

DescriptionLines == 5

\* extract_description over all the lines of the text
extract_description_all_lines(text) == description_from(SplitLines(text))

extract_description(text) ==
  description_from(FirstN(SplitLines(text), DescriptionLines))

\* the two patterns of _extract_employee: the alternatives of the label
\* group, in order, and the characters that may follow the label
employee_patterns ==
  << [alts  |-> << <<"n","a","m","e">>,
                   <<"e","m","p","l","o","y","e","e">>,
                   <<"c","u","s","t","o","m","e","r">> >>,
      after |-> ":"],
     [alts  |-> << <<"m","r">>, <<"m","s">>, <<"m","r","s">> >>,
      after |-> "."] >>

\* [a-z\s] under re.IGNORECASE
NameChars == Alpha \cup Space

\* Where group 1, ([a-z\s]+), starts when alternative alt of pattern p is
\* matched at i, or 0.  [:\s]+ (or [.\s]+) first takes its whole run; the
\* group then starts at a letter that follows the run, and otherwise the
\* run gives back characters down to its last white space, which the group
\* takes instead.
NameStart(s, i, p, alt) ==
  LET e  == i + Len(alt)
      e1 == RunEnd(s, e, Space \cup {p.after})
      back == {q \in (e + 1)..(e1 - 1) : IsSpace(s[q])}
  IN  IF ~LitAtI(s, i, alt) THEN 0
      ELSE IF e1 = e THEN 0
      ELSE IF e1 <= Len(s) /\ IsAlpha(s[e1]) THEN e1
      ELSE IF back # {} THEN CHOOSE q \in back : \A r \in back : r <= q
      ELSE 0

\* the group start of the first alternative, from alternative k on, that
\* matches at i, or 0
RECURSIVE NameStartAlt(_, _, _, _)
NameStartAlt(s, i, p, k) ==
  IF k > Len(p.alts) THEN 0
  ELSE LET g == NameStart(s, i, p, p.alts[k])
       IN  IF g # 0 THEN g ELSE NameStartAlt(s, i, p, k + 1)

\* re.search(pattern, text, re.IGNORECASE), trying the start positions from
\* i on: the start of the leftmost match, or 0
EmployeeSearchFrom(s, i, p) ==
  LET starts == {j \in i..Len(s) : NameStartAlt(s, j, p, 1) # 0}
  IN  IF starts = {} THEN 0 ELSE Min(starts)

EmployeeSearch(s, p) == EmployeeSearchFrom(s, 1, p)

\* match.group(1)
EmployeeGroup(s, at, p) ==
  LET g == NameStartAlt(s, at, p, 1)
  IN  SubSeq(s, g, RunEnd(s, g, NameChars) - 1)

\* Title without the change of case
Title_unchanged(name) == name

\* str.title() on letters and white space
Title(name) ==
  [i \in 1..Len(name) |->
     IF i > 1 /\ IsAlpha(name[i - 1]) THEN Lower(name[i]) ELSE Upper(name[i])]

NameMin == 2
NameMax == 50

\* lines 217-224, from pattern k on
RECURSIVE employee_from(_, _)
employee_from(text, k) ==
  IF k > Len(employee_patterns) THEN None
  ELSE LET p    == employee_patterns[k]
           at   == EmployeeSearch(text, p)
           name == Strip(EmployeeGroup(text, at, p))
       IN  IF at # 0 /\ NameMin < Len(name) /\ Len(name) < NameMax
              /\ ~\E i \in 1..Len(name) : IsDigit(name[i])
           THEN Title(name)
           ELSE employee_from(text, k + 1)

extract_employee(text) == employee_from(text, 1)

remark_keywords ==
  << <<"n","o","t","e">>, <<"r","e","m","a","r","k">>,
     <<"c","o","m","m","e","n","t">>, <<"m","e","m","o">> >>

\* re.search(r'note|remark|comment|memo', line, re.IGNORECASE)
HasRemarkKeyword(line) ==
  \E i \in 1..Len(line) :
    \E k \in 1..Len(remark_keywords) : LitAtI(line, i, remark_keywords[k])

RemarkLimit == 200

\* remark_from without the truncation of line 232
RECURSIVE remark_from_untruncated(_, _)
remark_from_untruncated(lines, i) ==
  IF i > Len(lines) THEN None
  ELSE IF HasRemarkKeyword(lines[i]) /\ i + 1 <= Len(lines)
       THEN Strip(lines[i + 1])
       ELSE remark_from_untruncated(lines, i + 1)

\* lines 229-233, from line i (counted from 1) on
RECURSIVE remark_from(_, _)
remark_from(lines, i) ==
  IF i > Len(lines) THEN None
  ELSE IF HasRemarkKeyword(lines[i]) /\ i + 1 <= Len(lines)
       THEN Truncate(Strip(lines[i + 1]), RemarkLimit)
       ELSE remark_from(lines, i + 1)

extract_remark(text) == remark_from(SplitLines(text), 1)

(***************************************************************************)
(* _empty_response and the result record                                   *)
(***************************************************************************)
NoTextMessage ==
  <<"No text detected in image. Please ensure the receipt is clear and well-lit.">>

\* f"OCR processing failed: {str(e)}"
FailedMessage(e) == <<"OCR processing failed: ">> \o e

\* _empty_response that drops its message
empty_response_no_message(error_message, now, pad_year) ==
  [employee    |-> None,
   description |-> None,
   date        |-> strftime(now, pad_year),
   category    |-> "Other",
   paid_by     |-> "Cash",
   remark      |-> None,
   amount      |-> None]

empty_response(error_message, now, pad_year) ==
  [employee    |-> None,
   description |-> IF error_message # <<>> THEN error_message ELSE None,
   date        |-> strftime(now, pad_year),
   category    |-> "Other",
   paid_by     |-> "Cash",
   remark      |-> None,
   amount      |-> None]

\* the extractors in the order the dict display of lines 63-71 calls them
Extractors ==
  <<"employee", "description", "date", "category", "paid_by", "remark", "amount">>

\* date is the value of self._extract_date(full_text), which alone among the
\* seven reads the clock
extracted_data(text, date) ==
  [employee    |-> extract_employee(text),
   description |-> extract_description(text),
   date        |-> date,
   category    |-> extract_category(text),
   paid_by     |-> extract_payment_method(text),
   remark      |-> extract_remark(text),
   amount      |-> extract_amount(text)]

MinTextLen == 10

\* low_signal without the strip()
low_signal_unstripped(text) == text = <<>> \/ Len(text) < MinTextLen

\* not full_text or len(full_text.strip()) < 10
low_signal(text) == text = <<>> \/ Len(Strip(text)) < MinTextLen

(***************************************************************************)
(* _preprocess_image                                                       *)
(***************************************************************************)
MinWidth == 1000
TargetWidth == 1500

\* the pairs <<x, width>> the model draws for which the double product
\* x * (1500 / width) falls just below the integer x * 1500 / width
RoundsBelow == {<<91, 91>>}

\* int(x * scale_factor) with scale_factor = 1500 / width, in doubles
scaled(x, width) ==
  ((x * TargetWidth) \div width) - (IF <<x, width>> \in RoundsBelow THEN 1 ELSE 0)

\* lines 85-104.  fail_at names the step that raises: 1 convert('RGB'),
\* 2 convert('L'), 3 resize, 0 none.  The handler returns the local image,
\* which the steps before the failing one have rebound.
preprocess_image(img, fail_at) ==
  LET rgb  == IF img.mode # "RGB" THEN [img EXCEPT !.mode = "RGB"] ELSE img
      gray == [rgb EXCEPT !.mode = "L"]
      big  == [gray EXCEPT !.width  = scaled(gray.width, gray.width),
                           !.height = scaled(gray.height, gray.width)]
  IN  IF fail_at = 1 /\ img.mode # "RGB" THEN img
      ELSE IF fail_at = 2 THEN rgb
      ELSE IF gray.width < MinWidth THEN (IF fail_at = 3 THEN gray ELSE big)
      ELSE gray

(***************************************************************************)
(* validate_image_file and the size check of process_receipt_ocr           *)
(***************************************************************************)
MAX_FILE_SIZE == 10 * 1024 * 1024

ALLOWED_EXTENSIONS ==
  { <<"p", "n", "g">>,
    <<"j", "p", "g">>,
    <<"j", "p", "e", "g">>,
    <<"g", "i", "f">>,
    <<"b", "m", "p">>,
    <<"t", "i", "f", "f">>,
    <<"w", "e", "b", "p">> }

\* the index of the last '.' of s, or 0
RECURSIVE LastDot(_, _)
LastDot(s, i) == IF i = 0 THEN 0 ELSE IF s[i] = "." THEN i ELSE LastDot(s, i - 1)

\* file.filename.split('.')[-1].lower()
file_ext(filename) ==
  LowerStr(SubSeq(filename, LastDot(filename, Len(filename)) + 1, Len(filename)))

ImagePrefix == <<"i","m","a","g","e","/">>

\* str.startswith(prefix)
StartsWith(s, prefix) ==
  Len(s) >= Len(prefix) /\ SubSeq(s, 1, Len(prefix)) = prefix

\* the detail of the HTTPException validate_image_file raises, or None
validate_image_file(filename, content_type) ==
  IF filename = None \/ filename = <<>> THEN <<"No filename provided">>
  ELSE IF file_ext(filename) \notin ALLOWED_EXTENSIONS THEN <<"Invalid file type">>
  ELSE IF content_type = None \/ ~StartsWith(content_type, ImagePrefix)
       THEN <<"File must be an image">>
  ELSE None

(***************************************************************************)
(* The inputs of one request                                               *)
(***************************************************************************)
MaxFrags == 2

\* s, n times over
RECURSIVE Repeat(_, _)
Repeat(s, n) == IF n = 0 THEN <<>> ELSE s \o Repeat(s, n - 1)

\* a line longer than a description and a remark may be
LongLine == Repeat(<<"V", "i", "s", "a", " ", "P", "&", "Q", "-", "H", "o", "t", "e", "l", "'", "s", " ", "#", "1", "!", " ">>, 10) \o <<"\n">>

\* a title followed by a run of letters and blanks that is 50 characters
\* long when stripped
LongName == <<"M", "s", " ">> \o Repeat(<<"a", "b", " ">>, 17)

Fragments ==
  { <<"T", "o", "t", "a", "l", ":", " ", "$", "4", "5", ".", "6", "7">>,
    <<"S", "u", "b", "t", "o", "t", "a", "l", " ", "4", "0", ".", "0", "0", "\n">>,
    <<"U", "b", "e", "r", " ", "t", "r", "i", "p", "\n">>,
    <<"C", "a", "f", "e", " ">>,
    <<"1", "2", ".", "5", "0", " ">>,
    <<" ", "9", "9", ".", "9", "9">>,
    <<"0", ".", "0", "0">>,
    <<"1", "5", "/", "0", "3", "/", "2", "0", "2", "4">>,
    <<"0", "1", "-", "0", "1", "-", "0", "9", "9", "9">>,
    <<"p", "a", "i", "d", " ", "v", "i", "a", " ", "g", "p", "a", "y", "\n">>,
    <<"8">>,
    <<".">>,
    <<"N", "a", "m", "e", ":", " ", "j", "o", " ", "a", "n", "n", "\n">>,
    <<"N", "o", "t", "e", "\n">>,
    <<"2", "0", "2", "4", "-", "0", "2", "-", "3", "0">>,
    <<"$", "5">>,
    <<"2", "0", "2", "4", "-", "0", "2", "-", "1">>,
    <<"3", "-", "4", "-", "2", "0", "2", "4">>,
    <<"3", "/", "1", "5", "/", "2", "0", "2", "4">>,
    <<"B", "a", "l", "a", "n", "c", "e", " ", "0", ",">>,
    <<"1", "\n", "2", "\n", "3", "\n", "4", "\n">> }

\* longer pieces of a receipt: a first line longer than a description or a
\* remark may be, five lines before the merchant's, titles with a capture
\* at the limits of a name, a keyword of remarks with no line after it, an
\* amount under the label amount, a date as the extractor prints it
Openings ==
  { LongLine,
    LongName,
    <<"-", "\n", "-", "\n", "-", "\n", "-", "\n", "-", "\n", "A", "c", "m", "e", " ", "S", "t", "o", "r", "e", "\n">>,
    <<"M", "r", ".", " ", "L", "i", " ">>,
    <<"M", "E", "M", "O", ":">>,
    <<"A", "m", "o", "u", "n", "t", ":", " ", "7", ".", "5", "0", "\n">>,
    <<"D", "a", "t", "e", " ", "2", "0", "2", "3", "-", "1", "2", "-", "0", "5", "\n">> }

\* an opening with at most one fragment or opening before or after it
OpenedTexts ==
  {o \o f : o \in Openings, f \in Fragments \cup Openings \cup {<<>>}}
    \cup {f \o o : f \in Fragments, o \in Openings}

\* the recognized texts: up to n fragments, one after the other
RECURSIVE TextsOf(_)
TextsOf(n) ==
  IF n = 0 THEN {<<>>}
  ELSE TextsOf(n - 1) \cup {t \o f : t \in TextsOf(n - 1), f \in Fragments}

Texts == TextsOf(MaxFrags) \cup OpenedTexts

\* datetime.now() on the day of the request
Todays == {[y |-> 2026, m |-> 11, d |-> 1], [y |-> 2024, m |-> 2, d |-> 29]}

Filenames ==
  { None, <<>>, <<"r", ".", "J", "P", "G">>, <<"r", ".", "p", "d", "f">> }

ContentTypes ==
  { None, <<"i", "m", "a", "g", "e", "/", "j", "p", "e", "g">>, <<"t", "e", "x", "t", "/", "p", "l", "a", "i", "n">> }

Sizes == {MAX_FILE_SIZE, MAX_FILE_SIZE + 1}

Images ==
  [mode : {"RGB", "RGBA"}, width : {91, 500, 700, MinWidth}, height : {300}]

NoImage == [mode |-> "none", width |-> 0, height |-> 0]
NoUpload == [filename |-> None, content_type |-> None, size |-> 0]
NoResponse == [status |-> 0, detail |-> None]
NoResult == [employee |-> None, description |-> None, date |-> None,
             category |-> "none", paid_by |-> "none", remark |-> None,
             amount |-> None]

\* the calls of extract_expense_details that run at the same time on the
\* singleton ocr_service
NumCalls == 2

Calls == 1..NumCalls

\* what a call is given: image bytes that decode or not, the image they
\* decode to and the text that the recognizer finds in it (None: the
\* recognizer raises on it)
NoReceipt == [decodes |-> FALSE, image |-> NoImage, text |-> None]

Receipts ==
  { NoReceipt,
    [decodes |-> TRUE, image |-> [mode |-> "RGBA", width |-> 500, height |-> 300],
     text |-> None],
    [decodes |-> TRUE, image |-> [mode |-> "RGB", width |-> MinWidth, height |-> 300],
     text |-> <<"C", "a", "f", "e", " ">>],
    [decodes |-> TRUE, image |-> [mode |-> "RGB", width |-> 500, height |-> 300],
     text |-> <<"T", "o", "t", "a", "l", ":", " ", "$", "4", "5", ".", "6", "7">>],
    [decodes |-> TRUE, image |-> [mode |-> "RGBA", width |-> 700, height |-> 300],
     text |-> <<"C", "a", "f", "e", " ", "U", "b", "e", "r", " ", "t", "r", "i", "p", "\n">>] }

\* the local variables of a call that has not started.  overlapped records
\* that the call took a step while another call was running.
IdleFrame ==
  [pc |-> "idle", content |-> NoReceipt, image |-> NoImage, full_text |-> None,
   result |-> NoResult, exc |-> None, overlapped |-> FALSE]

(***************************************************************************)
(* The request: process_receipt_ocr calling extract_expense_details        *)
(***************************************************************************)
Init ==
  /\ pc = "validate"
  /\ upload = NoUpload
  /\ http = NoResponse
  /\ image = NoImage
  /\ full_text = None
  /\ result = NoResult
  /\ exc = None
  /\ invoked = {}
  /\ calls = [c \in Calls |-> IdleFrame]

\* raise HTTPException(status_code, detail), which the route re-raises
Reject(status, detail) ==
  /\ http' = [status |-> status, detail |-> detail]
  /\ pc' = "done"

\* lines 57 of routes/user.py: validate_image_file(receipt)
Validate ==
  /\ pc = "validate"
  /\ \E fn \in Filenames, ct \in ContentTypes :
       /\ upload' = [upload EXCEPT !.filename = fn, !.content_type = ct]
       /\ IF validate_image_file(fn, ct) # None
          THEN Reject(400, validate_image_file(fn, ct))
          ELSE pc' = "read" /\ UNCHANGED http
  /\ UNCHANGED <<image, full_text, result, exc, invoked, calls>>

\* ReadContent without the size check of lines 63-67
ReadContent_unchecked ==
  /\ pc = "read"
  /\ \/ \E size \in Sizes :
          /\ upload' = [upload EXCEPT !.size = size]
          /\ pc' = "open"
          /\ UNCHANGED http
     \/ /\ Reject(500, <<"Failed to process receipt: ", "read failed">>)
        /\ UNCHANGED upload
  /\ UNCHANGED <<image, full_text, result, exc, invoked, calls>>

\* lines 60-67: read the upload and check its size; a failing read is
\* answered by the route's last handler
ReadContent ==
  /\ pc = "read"
  /\ \/ \E size \in Sizes :
          /\ upload' = [upload EXCEPT !.size = size]
          /\ IF size > MAX_FILE_SIZE
             THEN Reject(400, <<"File size exceeds maximum allowed size">>)
             ELSE pc' = "open" /\ UNCHANGED http
     \/ /\ Reject(500, <<"Failed to process receipt: ", "read failed">>)
        /\ UNCHANGED upload
  /\ UNCHANGED <<image, full_text, result, exc, invoked, calls>>

\* OpenImage with Image.open outside the try: the decode error leaves
\* extract_expense_details and the route's last handler answers it
OpenImage_uncaught ==
  /\ pc = "open"
  /\ \/ /\ \E img \in Images : image' = img
        /\ pc' = "preprocess"
        /\ UNCHANGED <<exc, http>>
     \/ /\ exc' = <<"cannot identify image file">>
        /\ Reject(500, <<"Failed to process receipt: ">> \o exc')
        /\ UNCHANGED image
  /\ UNCHANGED <<upload, full_text, result, invoked, calls>>

\* line 49: Image.open(io.BytesIO(image_content)), which raises when the
\* bytes are no image; the raise is inside the try of line 47
OpenImage ==
  /\ pc = "open"
  /\ \/ \E img \in Images : image' = img /\ pc' = "preprocess" /\ UNCHANGED exc
     \/ /\ exc' = <<"cannot identify image file">>
        /\ pc' = "handler"
        /\ UNCHANGED image
  /\ UNCHANGED <<upload, http, full_text, result, invoked, calls>>

\* line 52
Preprocess ==
  /\ pc = "preprocess"
  /\ \E fail_at \in 0..3 : image' = preprocess_image(image, fail_at)
  /\ pc' = "recognize"
  /\ UNCHANGED <<upload, http, full_text, result, exc, invoked, calls>>

\* line 55: pytesseract.image_to_string(image) returns a text or raises.
\* The image is not used after this line.
Recognize ==
  /\ pc = "recognize"
  /\ image' = NoImage
  /\ \/ \E t \in Texts : full_text' = t /\ pc' = "check" /\ UNCHANGED exc
     \/ /\ exc' = <<"tesseract failed">>
        /\ pc' = "handler"
        /\ UNCHANGED full_text
  /\ UNCHANGED <<upload, http, result, invoked, calls>>

\* lines 57-58
CheckText ==
  /\ pc = "check"
  /\ IF low_signal(full_text)
     THEN \E now \in Todays :
            /\ result' = empty_response(NoTextMessage, now, TRUE)
            /\ pc' = "respond"
     ELSE pc' = "extract" /\ UNCHANGED result
  /\ UNCHANGED <<upload, http, image, full_text, exc, invoked, calls>>

\* ExtractFields with each extractor call in a try of its own: the field of
\* the extractor that raises gets its default and the others their values
ExtractFields_fail_soft ==
  /\ pc = "extract"
  /\ \E raises \in 0..Len(Extractors) :
       /\ \E data \in {extracted_data(full_text, None)} :
            \E now \in Todays, pad_year \in BOOLEAN :
              LET full == [data EXCEPT !.date = extract_date(full_text, now, pad_year)]
                  lost == empty_response(<<>>, now, pad_year)
              IN  result' = IF raises = 0 THEN full
                            ELSE [full EXCEPT ![Extractors[raises]] = lost[Extractors[raises]]]
       /\ exc' = IF raises = 0 THEN exc ELSE <<"error in ", Extractors[raises]>>
  /\ invoked' = Range(Extractors)
  /\ pc' = "respond"
  /\ UNCHANGED <<upload, http, image, full_text, calls>>

\* lines 63-75: the extractors run in order.  raises is the number of the
\* extractor that raises, 0 when none does; an exception leaves the dict
\* display for the handler of line 77.
ExtractFields ==
  /\ pc = "extract"
  /\ \E raises \in 0..Len(Extractors) :
       IF raises = 0
       THEN /\ \E data \in {extracted_data(full_text, None)} :
                 \E now \in Todays, pad_year \in BOOLEAN :
                   result' = [data EXCEPT !.date = extract_date(full_text, now, pad_year)]
            /\ invoked' = Range(Extractors)
            /\ pc' = "respond"
            /\ UNCHANGED exc
       ELSE /\ invoked' = {Extractors[k] : k \in 1..raises}
            /\ exc' = <<"error in ", Extractors[raises]>>
            /\ pc' = "handler"
            /\ UNCHANGED result
  /\ UNCHANGED <<upload, http, image, full_text, calls>>

\* lines 77-81: except Exception as e.  The record the handler returns is
\* made from e alone; the text, if one was recognized, goes with the frame.
Handler ==
  /\ pc = "handler"
  /\ \E now \in Todays : result' = empty_response(FailedMessage(exc), now, TRUE)
  /\ full_text' = None
  /\ pc' = "respond"
  /\ UNCHANGED <<upload, http, image, exc, invoked, calls>>

\* lines 73-77 of routes/user.py: the route answers with the record
Respond ==
  /\ pc = "respond"
  /\ http' = [status |-> 200, detail |-> <<"Receipt processed successfully">>]
  /\ pc' = "done"
  /\ UNCHANGED <<upload, image, full_text, result, exc, invoked, calls>>

Next ==
  \/ Validate
  \/ ReadContent
  \/ OpenImage
  \/ Preprocess
  \/ Recognize
  \/ CheckText
  \/ ExtractFields
  \/ Handler
  \/ Respond

Spec == Init /\ [][Next]_vars

(***************************************************************************)
(* Calls of extract_expense_details that run at the same time on the       *)
(* singleton ocr_service.  A call keeps image, full_text, extracted_data   *)
(* and e in its own frame; the singleton has no attribute, and __init__    *)
(* alone writes pytesseract's tesseract_cmd.                                *)
(***************************************************************************)
MainVars == <<pc, upload, http, image, full_text, result, exc, invoked>>

\* another call is between its first line and its return
Overlaps(c) == \E d \in Calls \ {c} : calls[d].pc \notin {"idle", "done"}

\* one step of call c, which leaves its frame as given
CallStep(c, frame) ==
  /\ calls' = [calls EXCEPT ![c] = [frame EXCEPT !.overlapped = @ \/ Overlaps(c)]]
  /\ UNCHANGED MainVars

\* line 37: the call is entered with its image_content
CallStart(c) ==
  /\ calls[c].pc = "idle"
  /\ \E r \in Receipts :
       CallStep(c, [calls[c] EXCEPT !.pc = "open", !.content = r])

\* line 49
CallOpenImage(c) ==
  /\ calls[c].pc = "open"
  /\ IF calls[c].content.decodes
     THEN CallStep(c, [calls[c] EXCEPT !.image = calls[c].content.image,
                                       !.pc = "preprocess"])
     ELSE CallStep(c, [calls[c] EXCEPT !.exc = <<"cannot identify image file">>,
                                       !.pc = "handler"])

\* line 52
CallPreprocess(c) ==
  /\ calls[c].pc = "preprocess"
  /\ \E fail_at \in 0..3 :
       CallStep(c, [calls[c] EXCEPT !.image = preprocess_image(calls[c].image, fail_at),
                                    !.pc = "recognize"])

\* CallRecognize with the recognized text kept on the singleton
\* (self.full_text), where the calls that have a text read it
CallRecognize_on_singleton(c) ==
  /\ calls[c].pc = "recognize"
  /\ IF calls[c].content.text # None
     THEN /\ calls' = [d \in Calls |->
                         IF d = c
                         THEN [calls[c] EXCEPT !.image = NoImage,
                                               !.full_text = calls[c].content.text,
                                               !.pc = "check",
                                               !.overlapped = @ \/ Overlaps(c)]
                         ELSE IF calls[d].pc \in {"check", "extract"}
                         THEN [calls[d] EXCEPT !.full_text = calls[c].content.text]
                         ELSE calls[d]]
          /\ UNCHANGED MainVars
     ELSE CallStep(c, [calls[c] EXCEPT !.image = NoImage,
                                       !.exc = <<"tesseract failed">>,
                                       !.pc = "handler"])

\* line 55: the text is bound to the local full_text
CallRecognize(c) ==
  /\ calls[c].pc = "recognize"
  /\ IF calls[c].content.text # None
     THEN CallStep(c, [calls[c] EXCEPT !.image = NoImage,
                                       !.full_text = calls[c].content.text,
                                       !.pc = "check"])
     ELSE CallStep(c, [calls[c] EXCEPT !.image = NoImage,
                                       !.exc = <<"tesseract failed">>,
                                       !.pc = "handler"])

\* lines 57-58
CallCheckText(c) ==
  /\ calls[c].pc = "check"
  /\ IF low_signal(calls[c].full_text)
     THEN \E now \in Todays :
            CallStep(c, [calls[c] EXCEPT !.result = empty_response(NoTextMessage, now, TRUE),
                                         !.pc = "done"])
     ELSE CallStep(c, [calls[c] EXCEPT !.pc = "extract"])

\* lines 63-75: the extractors read the local full_text
CallExtractFields(c) ==
  /\ calls[c].pc = "extract"
  /\ \E data \in {extracted_data(calls[c].full_text, None)} :
       \E now \in Todays, pad_year \in BOOLEAN :
         CallStep(c, [calls[c] EXCEPT
                        !.result = [data EXCEPT !.date = extract_date(calls[c].full_text,
                                                                      now, pad_year)],
                        !.pc = "done"])

\* lines 77-81
CallHandler(c) ==
  /\ calls[c].pc = "handler"
  /\ \E now \in Todays :
       CallStep(c, [calls[c] EXCEPT
                      !.result = empty_response(FailedMessage(calls[c].exc), now, TRUE),
                      !.full_text = None,
                      !.pc = "done"])

InitConcurrent == Init

NextConcurrent ==
  \/ \E c \in Calls : CallStart(c)
  \/ \E c \in Calls : CallOpenImage(c)
  \/ \E c \in Calls : CallPreprocess(c)
  \/ \E c \in Calls : CallRecognize(c)
  \/ \E c \in Calls : CallCheckText(c)
  \/ \E c \in Calls : CallExtractFields(c)
  \/ \E c \in Calls : CallHandler(c)

SpecConcurrent == InitConcurrent /\ [][NextConcurrent]_vars

(***************************************************************************)

(* Properties                                                              *)
(***************************************************************************)
\* the call of extract_expense_details is over
CallOver == pc \in {"respond", "done"}

\* extract_expense_details has returned: result is the record it returned
Returned == result # NoResult

\* the seven extractors ran on full_text and extract_expense_details
\* returns the record of lines 63-71
Extracted == pc = "respond" /\ Returned /\ exc = None /\ invoked = Range(Extractors)

DecodeFailed == exc = <<"cannot identify image file">>
RecognizerFailed == exc = <<"tesseract failed">>
ExtractorRaised == \E k \in 1..Len(Extractors) : exc = <<"error in ", Extractors[k]>>

FieldNames ==
  {"employee", "description", "date", "category", "paid_by", "remark", "amount"}

\* today's date as YYYY-MM-DD, for a day datetime.now() can return
IsToday(date) == \E now \in Todays : date = strftime(now, TRUE)

\* r is the canonical empty response that carries message
IsEmptyResponse(r, message) ==
  /\ DOMAIN r = FieldNames
  /\ r.employee = None
  /\ r.description = message
  /\ IsToday(r.date)
  /\ r.category = "Other"
  /\ r.paid_by = "Cash"
  /\ r.remark = None
  /\ r.amount = None

\* C1, as claimed: when the image bytes cannot be decoded,
\* extract_expense_details raises to its caller: it returns no record and
\* the route does not answer with a success response.
C1_DecodeFailureIsRaised ==
  DecodeFailed => (result = NoResult /\ http.status # 200)

\* C1, amended: when the image bytes cannot be decoded,
\* extract_expense_details does not raise: the handler of line 77 catches the
\* decode error, the call returns the canonical empty response with
\* "OCR processing failed: <message>" as description, and the route answers
\* with its success response.
C1_DecodeFailureIsRecovered ==
  (DecodeFailed /\ CallOver) =>
    /\ IsEmptyResponse(result, <<"OCR processing failed: ", "cannot identify image file">>)
    /\ pc = "done" => http.status = 200

C1_Witness == DecodeFailed /\ pc = "done" /\ http.status = 200

\* the field an extractor's name stands for, and the values the extractor
\* can return for it on text
FieldValues(name, text) ==
  IF name = "date"
  THEN {extract_date(text, now, pad_year) : now \in Todays, pad_year \in BOOLEAN}
  ELSE {extracted_data(text, None)[name]}

\* C2, as claimed: if one field extractor raises while the result is
\* assembled, the record the call returns has that field absent and the
\* values of the other six extractors.
C2_OtherFieldsAreReturned ==
  [][(pc = "handler" /\ ExtractorRaised) =>
       \A k \in 1..Len(Extractors) :
         IF exc = <<"error in ", Extractors[k]>>
         THEN result'[Extractors[k]] = None
         ELSE result'[Extractors[k]] \in FieldValues(Extractors[k], full_text)]_vars

\* C2, amended: if a field extractor raises while the result is assembled,
\* the exception reaches the handler of line 77: the call does not raise and
\* returns the canonical empty response with the exception's message in
\* description, and no value of another extractor is returned.
C2_ExtractorFailureGivesEmptyResponse ==
  (ExtractorRaised /\ CallOver) =>
    /\ IsEmptyResponse(result, <<"OCR processing failed: ">> \o exc)
    /\ pc = "done" => http.status = 200

\* the last extractor raised, after the other six had returned
C2_Witness ==
  /\ exc = <<"error in ", "amount">>
  /\ invoked = FieldNames
  /\ pc = "done"
  /\ result.category = "Other"

\* C3: for a recognized text that is empty or has fewer than 10 characters
\* once stripped, extract_expense_details returns the canonical empty
\* response with the 'no text detected' message, and no extractor is invoked.
C3_ShortTextGivesEmptyResponse ==
  (Returned /\ full_text # None /\ (full_text = <<>> \/ Len(Strip(full_text)) < 10)) =>
    /\ IsEmptyResponse(result, NoTextMessage)
    /\ invoked = {}

\* a text of 10 characters, 9 once stripped
C3_Witness ==
  /\ pc = "done"
  /\ Len(full_text) = 10 /\ Len(Strip(full_text)) = 9
  /\ result.description = NoTextMessage

\* C4: when the text recognizer raises, extract_expense_details does not
\* raise: it returns a record of the seven fields that is the canonical empty
\* response with the exception's message in description.
C4_RecognizerFailureGivesEmptyResponse ==
  (RecognizerFailed /\ CallOver) =>
    /\ IsEmptyResponse(result, <<"OCR processing failed: ", "tesseract failed">>)
    /\ pc = "done" => http.status = 200

C4_Witness == RecognizerFailed /\ pc = "done" /\ result.description # None

\* C5, as claimed: an amount that extract_expense_details returns parses to
\* a number v with 0 < v < 1,000,000, on every path.
C5_AmountIsInRange ==
  (Returned /\ result.amount # None) =>
    /\ IsFloat(result.amount)
    /\ FloatLess(<<"0">>, result.amount)
    /\ FloatLess(result.amount, <<"1","0","0","0","0","0","0">>)

\* C6: on every return path category is one of the eight categories and
\* paid_by one of the four payment methods.
C6_ClosedSets ==
  Returned =>
    /\ result.category \in {"Food", "Transportation", "Accommodation", "Office Supplies",
                            "Entertainment", "Medical", "Utilities", "Other"}
    /\ result.paid_by \in {"Cash", "Credit Card", "Debit Card", "UPI"}

C6_Witness ==
  pc = "done" /\ result.category = "Transportation" /\ result.paid_by = "UPI"

\* d is YYYY-MM-DD and names a day of the calendar
IsIsoDate(d) ==
  /\ Len(d) = 10
  /\ \A i \in {1, 2, 3, 4, 6, 7, 9, 10} : IsDigit(d[i])
  /\ d[5] = "-" /\ d[8] = "-"
  /\ ValidDate([y |-> StrToInt(SubSeq(d, 1, 4)),
                m |-> StrToInt(SubSeq(d, 6, 7)),
                d |-> StrToInt(SubSeq(d, 9, 10))])

\* C7, as claimed: on every return path the date field is a string
\* YYYY-MM-DD that names a valid calendar date.
C7_DateIsIsoDate == Returned => IsIsoDate(result.date)

TotalText == <<"T","o","t","a","l",":"," ","$","4","5",".","6","7">>
Amount4567 == <<"4","5",".","6","7">>

\* C8, as claimed: for every text that contains "Total: $45.67" the amount
\* extractor returns "45.67".
C8_TotalIsReturned ==
  (Extracted /\ Contains(full_text, TotalText)) => result.amount = Amount4567

\* the first pattern of _extract_amount, the one labelled total
TotalPattern == [label |-> << <<"t","o","t","a","l">> >>]

\* "Total: $45.67" is at index i of text, no match of the total pattern
\* starts before i, and neither a digit nor a point follows the substring
C8_Case(text, i) ==
  /\ LitAt(text, i, TotalText)
  /\ AmountSearch(text, TotalPattern) = i
  /\ i + Len(TotalText) <= Len(text) =>
       ~(IsDigit(text[i + Len(TotalText)]) \/ text[i + Len(TotalText)] = ".")

\* C8, amended: for every text in which the leftmost match of the total
\* pattern (the word total in any case, colons and white space, an optional
\* currency symbol, white space, a number) starts at the "Total" of a
\* substring "Total: $45.67" that is followed by neither a digit nor a
\* point, the amount extractor returns "45.67".
C8_LeftmostTotalIsReturned ==
  Extracted =>
    \A i \in 1..Len(full_text) : C8_Case(full_text, i) => result.amount = Amount4567

\* the substring is preceded by other text, a currency amount among it
C8_Witness ==
  /\ Extracted
  /\ \E i \in 2..Len(full_text) : C8_Case(full_text, i) /\ full_text[1] = "$"
  /\ result.amount = Amount4567

Uber == <<"u","b","e","r">>

\* C9, as claimed: for every text that contains "uber", in any case, the
\* category extractor returns Transportation, whatever else it contains.
C9_UberIsTransportation ==
  (Extracted /\ Contains(LowerStr(full_text), Uber)) => result.category = "Transportation"

\* a keyword of Food, the category before Transportation in the table, is
\* in the lower-cased text
HasFoodKeyword(text) ==
  \E j \in 1..Len(categories[1].keywords) :
    Contains(LowerStr(text), categories[1].keywords[j])

\* C9, amended: for every text that contains "uber", in any case, and no
\* keyword of Food, the category extractor returns Transportation, whatever
\* keywords of the later categories it contains.
C9_UberWithoutFoodIsTransportation ==
  (Extracted /\ Contains(LowerStr(full_text), Uber) /\ ~HasFoodKeyword(full_text)) =>
    result.category = "Transportation"

\* "Uber", not in lower case, in a text with a payment keyword
C9_Witness ==
  /\ Extracted
  /\ Contains(full_text, <<"U","b","e","r">>)
  /\ result.paid_by = "UPI"
  /\ result.category = "Transportation"

\* none of the five patterns of lines 109-115 matches text
NoPatternMatches(text) ==
  \A k \in 1..Len(amount_patterns) : AmountSearch(text, amount_patterns[k]) = 0

\* C10: when no label pattern and no currency-symbol pattern matches the
\* text, the amount extractor returns a two-decimal token that the scan of
\* line 129 finds and that no other such token exceeds in value, and absent
\* when the scan finds none.
C10_FallbackIsMaximum ==
  (Extracted /\ NoPatternMatches(full_text)) =>
    LET tokens == FindAllMoney(full_text, 1)
    IN  IF tokens = <<>> THEN result.amount = None
        ELSE /\ \E i \in 1..Len(tokens) : result.amount = tokens[i]
             /\ \A i \in 1..Len(tokens) : ~FloatLess(result.amount, tokens[i])

\* the only tokens are 12.50 and 99.99, the smaller first
C10_Witness ==
  /\ Extracted
  /\ NoPatternMatches(full_text)
  /\ FindAllMoney(full_text, 1) = << <<"1","2",".","5","0">>, <<"9","9",".","9","9">> >>
  /\ result.amount = <<"9","9",".","9","9">>

\* the first match in text of the numeric pattern with the year last, or <<>>
NumericToken(text) ==
  LET at == DateSearch(text, date_patterns[1])
  IN  IF at = 0 THEN <<>> ELSE DateGroup(text, at, date_patterns[1])

\* the token read as a sep b sep y: its two numbers, its two separators and
\* the digits of its year
TokenFields(tok) ==
  LET e1 == RunEnd(tok, 1, Digit)
      e2 == RunEnd(tok, e1 + 1, Digit)
  IN  [a    |-> StrToInt(SubSeq(tok, 1, e1 - 1)),
       b    |-> StrToInt(SubSeq(tok, e1 + 1, e2 - 1)),
       sep1 |-> tok[e1],
       sep2 |-> tok[e2],
       year |-> SubSeq(tok, e2 + 1, Len(tok))]

\* the token is D sep M sep YYYY with one separator used twice
FourDigitYearToken(tok) ==
  /\ tok # <<>>
  /\ TokenFields(tok).sep1 = TokenFields(tok).sep2
  /\ Len(TokenFields(tok).year) = 4

DayMonthReading(tok) ==
  [y |-> StrToInt(TokenFields(tok).year), m |-> TokenFields(tok).b, d |-> TokenFields(tok).a]

MonthDayReading(tok) ==
  [y |-> StrToInt(TokenFields(tok).year), m |-> TokenFields(tok).a, d |-> TokenFields(tok).b]

\* dt as strftime prints it on some platform
Printed(dt) == {strftime(dt, pad_year) : pad_year \in BOOLEAN}

\* C11: when the numeric token that the date extractor finds has a 4-digit
\* year and its day-month-year reading is a date, the extractor returns that
\* reading, also when the month-day-year reading is a date too; it returns
\* the month-day-year reading when that is a date and the day-month-year
\* reading is not.
C11_DayMonthBeforeMonthDay ==
  (Extracted /\ FourDigitYearToken(NumericToken(full_text))) =>
    LET tok == NumericToken(full_text)
    IN  /\ ValidDate(DayMonthReading(tok)) => result.date \in Printed(DayMonthReading(tok))
        /\ (~ValidDate(DayMonthReading(tok)) /\ ValidDate(MonthDayReading(tok))) =>
              result.date \in Printed(MonthDayReading(tok))

\* both readings are dates, and different ones
C11_Witness ==
  /\ Extracted
  /\ FourDigitYearToken(NumericToken(full_text))
  /\ ValidDate(DayMonthReading(NumericToken(full_text)))
  /\ ValidDate(MonthDayReading(NumericToken(full_text)))
  /\ DayMonthReading(NumericToken(full_text)) # MonthDayReading(NumericToken(full_text))
  /\ result.date \in Printed(DayMonthReading(NumericToken(full_text)))

\* the keywords of the entry of table called name
KeywordsOf(table, name) ==
  UNION {Range(table[k].keywords) : k \in {j \in 1..Len(table) : table[j].name = name}}

\* the keywords of table that occur in the lower-cased text
KeywordsIn(table, text) ==
  UNION { {kw \in UNION {Range(table[k].keywords) : k \in 1..Len(table)} : Contains(low, kw)}
          : low \in {LowerStr(text)} }

\* the first name of order one of whose keywords is among found, or default
FirstWith(table, order, found, default) ==
  LET ks == {k \in 1..Len(order) : KeywordsOf(table, order[k]) \cap found # {}}
  IN  IF ks = {} THEN default ELSE order[Min(ks)]

PaymentOrder == <<"Credit Card", "Debit Card", "UPI", "Cash">>

\* the texts of one fragment, their payment keywords and their methods
PaymentKeywordsOfText == [t \in TextsOf(1) |-> KeywordsIn(payment_methods, t)]
PaymentOfText == [t \in TextsOf(1) |-> extract_payment_method(t)]
CategoryOfText == [t \in TextsOf(1) |-> extract_category(t)]

\* C12: the payment method returned is the first of Credit Card, Debit Card,
\* UPI, Cash one of whose keywords is in the lower-cased text, and Cash when
\* none is; every text with the same payment keywords gets the same method,
\* whatever category keywords it has.
C12_PaymentFollowsKeywords ==
  Extracted =>
    \A found \in {KeywordsIn(payment_methods, full_text)} :
      /\ result.paid_by = FirstWith(payment_methods, PaymentOrder, found, "Cash")
      /\ \A t \in DOMAIN PaymentOfText :
           PaymentKeywordsOfText[t] = found => PaymentOfText[t] = result.paid_by

\* a text with a keyword of UPI and of no method before it is UPI, as is a
\* text of another category with the same payment keywords
C12_Witness ==
  /\ Extracted
  /\ result.paid_by = "UPI"
  /\ \E t \in DOMAIN PaymentOfText :
       /\ PaymentKeywordsOfText[t] = KeywordsIn(payment_methods, full_text)
       /\ CategoryOfText[t] # result.category

\* a character of [a-zA-Z0-9\s&'-]
IsDescriptionChar(c) == IsAlpha(c) \/ IsDigit(c) \/ IsSpace(c) \/ c \in {"&", "'", "-"}

\* C13: a description that the description extractor returns has only
\* characters of [a-zA-Z0-9\s&'-], more than 3 of them and at most 100.
C13_DescriptionIsCleanAndBounded ==
  (Extracted /\ result.description # None) =>
    /\ \A i \in 1..Len(result.description) : IsDescriptionChar(result.description[i])
    /\ Len(result.description) > 3
    /\ Len(result.description) <= 100

\* a line with other characters, longer than 100 after they are removed
C13_Witness ==
  /\ Extracted
  /\ result.description # None
  /\ Len(result.description) = 100
  /\ LitAt(full_text, 1, LongLine)
  /\ \E i \in 1..Len(LongLine) : ~IsDescriptionChar(LongLine[i])

\* the substring of text that the accepted amount was matched in: the whole
\* match of the first pattern, from pattern k on, whose value validates,
\* otherwise the greatest two-decimal token; None when there is neither
RECURSIVE AcceptedMatch(_, _)
AcceptedMatch(text, k) ==
  IF k > Len(amount_patterns)
  THEN (IF FindAllMoney(text, 1) # <<>> THEN MaxByFloat(FindAllMoney(text, 1)) ELSE None)
  ELSE LET p      == amount_patterns[k]
           at     == AmountSearch(text, p)
           amount == RemoveCommas(AmountGroup(text, at, p))
       IN  IF at # 0 /\ IsFloat(amount) /\ AmountInRange(amount)
           THEN SubSeq(text, at, GroupEnd(text, GroupStart(text, at, p)) - 1)
           ELSE AcceptedMatch(text, k + 1)

\* float(a) = float(b)
SameNumber(a, b) ==
  /\ a # None /\ b # None
  /\ IsFloat(a) /\ IsFloat(b)
  /\ ~FloatLess(a, b) /\ ~FloatLess(b, a)

\* C14: when the amount extractor returns a value for a text, the amount
\* extractor run on the matched substring alone returns a value that is the
\* same number.
C14_AmountIsIdempotent ==
  (Extracted /\ result.amount # None) =>
    \A matched \in {AcceptedMatch(full_text, 1)} :
      /\ matched # None
      /\ SameNumber(extract_amount(matched), result.amount)

\* the match is a part of the text and has a separator that the value lost
C14_Witness ==
  /\ Extracted
  /\ result.amount # None
  /\ AcceptedMatch(full_text, 1) # full_text
  /\ Contains(AcceptedMatch(full_text, 1), <<",">>)
  /\ ~Contains(result.amount, <<",">>)
  /\ SameNumber(extract_amount(AcceptedMatch(full_text, 1)), result.amount)

\* extract_expense_details has been called for the upload
EngineCalled ==
  \/ pc \in {"open", "preprocess", "recognize", "check", "extract", "handler", "respond"}
  \/ result # NoResult

\* the three checks of the route on the upload u
ExtensionAllowed(u) ==
  /\ u.filename # None /\ u.filename # <<>>
  /\ file_ext(u.filename) \in ALLOWED_EXTENSIONS

ContentTypeIsImage(u) ==
  u.content_type # None /\ StartsWith(u.content_type, ImagePrefix)

SizeAllowed(u) == u.size <= 10 * 1024 * 1024

PassesChecks(u) == ExtensionAllowed(u) /\ ContentTypeIsImage(u) /\ SizeAllowed(u)

\* C15: extract_expense_details is called only for an upload whose extension
\* is allowed, whose content type starts with image/ and whose size is at
\* most 10 MB; an upload that fails one of the checks is answered with
\* status 400 and extract_expense_details is never called for it.
C15_ChecksBeforeExtraction ==
  /\ EngineCalled => PassesChecks(upload)
  /\ (pc = "done" /\ ~PassesChecks(upload)) => (http.status = 400 /\ ~EngineCalled)

\* an image of an allowed type that is one byte too long
C15_Witness ==
  /\ pc = "done"
  /\ ExtensionAllowed(upload) /\ ContentTypeIsImage(upload)
  /\ upload.size = 10 * 1024 * 1024 + 1
  /\ http.status = 400
  /\ ~EngineCalled

\* the candidates in priority order: the four labelled patterns, then the
\* bare currency symbol
PriorityOrder ==
  << [label |-> << <<"t","o","t","a","l">> >>],
     [label |-> << <<"a","m","o","u","n","t">> >>],
     [label |-> << <<"g","r","a","n","d">>, <<"t","o","t","a","l">> >>],
     [label |-> << <<"b","a","l","a","n","c","e">> >>],
     [label |-> << >>] >>

\* pattern p matches in text
HasCandidate(text, p) == AmountSearch(text, p) # 0

\* the value of the candidate of p: the group of its leftmost match without
\* the commas
CandidateValue(text, p) == RemoveCommas(AmountGroup(text, AmountSearch(text, p), p))

\* the value parses and is in (0, 1,000,000)
Validates(v) == IsFloat(v) /\ AmountInRange(v)

\* the places in the priority order of the candidates that validate
ValidCandidates(text) ==
  {k \in 1..Len(PriorityOrder) :
     HasCandidate(text, PriorityOrder[k]) /\ Validates(CandidateValue(text, PriorityOrder[k]))}

\* the two-decimal tokens of text
MoneyTokens(text) == Range(FindAllMoney(text, 1))

\* C17: the amount returned is the value, without its commas, of the first
\* candidate in priority order (labelled patterns, then the bare currency
\* symbol) that parses and is in (0, 1,000,000), whatever candidates before
\* it matched without validating; when no candidate validates it is the
\* greatest two-decimal token; it is absent only when there is neither.
C17_FirstValidCandidateWins ==
  Extracted =>
    \A valid \in {ValidCandidates(full_text)} :
      IF valid # {}
      THEN /\ result.amount = CandidateValue(full_text, PriorityOrder[Min(valid)])
           /\ ~Contains(result.amount, <<",">>)
      ELSE IF MoneyTokens(full_text) # {}
      THEN /\ result.amount \in MoneyTokens(full_text)
           /\ \A t \in MoneyTokens(full_text) : ~FloatLess(result.amount, t)
      ELSE result.amount = None

\* a labelled candidate matched and did not validate, and a candidate after
\* it gave the amount
C17_Witness ==
  /\ Extracted
  /\ ValidCandidates(full_text) # {}
  /\ \E k \in 1..4 :
       /\ k < Min(ValidCandidates(full_text))
       /\ HasCandidate(full_text, PriorityOrder[k])
  /\ result.amount = CandidateValue(full_text, PriorityOrder[Min(ValidCandidates(full_text))])

\* the date patterns that match in text, by their place in the list
MatchingDatePatterns(text) ==
  {k \in 1..Len(date_patterns) : DateSearch(text, date_patterns[k]) # 0}

\* what the formats make of the leftmost match of pattern k, or NoDate
ParsedMatch(text, k) ==
  parse_from(DateGroup(text, DateSearch(text, date_patterns[k]), date_patterns[k]), 1)

\* the date patterns whose leftmost match a format parses
ParsingDatePatterns(text) ==
  {k \in MatchingDatePatterns(text) : ParsedMatch(text, k) # NoDate}

\* the current date as strftime prints it
PrintedToday == UNION {Printed(now) : now \in Todays}

\* C18, as claimed: when no format parses the match of the first date pattern
\* that matches, the date extractor returns the current date, whatever the
\* remaining patterns match.
C18_OnlyFirstMatchIsParsed ==
  (/\ Extracted
   /\ MatchingDatePatterns(full_text) # {}
   /\ ParsedMatch(full_text, Min(MatchingDatePatterns(full_text))) = NoDate)
  => result.date \in PrintedToday

\* C18, amended: the date extractor takes the three patterns in order and
\* returns the date of the first pattern whose leftmost match one of the
\* seven formats parses; a pattern whose match no format parses does not end
\* the search, and the current date is returned only when no pattern has a
\* match that parses.
C18_FirstParsingMatchWins ==
  Extracted =>
    \A parsing \in {ParsingDatePatterns(full_text)} :
      IF parsing # {}
      THEN result.date \in Printed(ParsedMatch(full_text, Min(parsing)))
      ELSE result.date \in PrintedToday

\* the first pattern matches and no format parses its match; the second
\* pattern gives the date
C18_Witness ==
  /\ Extracted
  /\ 1 \in MatchingDatePatterns(full_text)
  /\ ParsingDatePatterns(full_text) # {}
  /\ Min(ParsingDatePatterns(full_text)) = 2
  /\ result.date \in Printed(ParsedMatch(full_text, 2))
  /\ result.date \notin PrintedToday

CategoryOrder ==
  <<"Food", "Transportation", "Accommodation", "Office Supplies", "Entertainment",
    "Medical", "Utilities">>

\* the categories one of whose keywords is in the lower-cased text
CategoriesIn(text) ==
  UNION { {c \in Range(CategoryOrder) : KeywordsOf(categories, c) \cap found # {}}
          : found \in {KeywordsIn(categories, text)} }

\* C19: the category returned is the first of Food, Transportation,
\* Accommodation, Office Supplies, Entertainment, Medical, Utilities one of
\* whose keywords occurs in the lower-cased text, wherever the keywords are and
\* however many keywords of later categories occur; it is Other exactly when
\* no keyword of any category occurs.
C19_FirstCategoryInTableOrder ==
  Extracted =>
    \A found \in {KeywordsIn(categories, full_text)} :
      /\ result.category = FirstWith(categories, CategoryOrder, found, "Other")
      /\ result.category = "Other" <=> found = {}

\* a keyword of a later category comes before the keyword of the category
\* returned
C19_Witness ==
  /\ Extracted
  /\ result.category = "Food"
  /\ Cardinality(CategoriesIn(full_text)) > 1
  /\ \E i \in 1..Len(full_text), j \in 1..Len(full_text) :
       /\ i < j
       /\ \E kw \in KeywordsOf(categories, "Transportation") : LitAt(LowerStr(full_text), i, kw)
       /\ \E kw \in KeywordsOf(categories, "Food") : LitAt(LowerStr(full_text), j, kw)
       /\ ~\E h \in 1..i, kw \in KeywordsOf(categories, "Food") : LitAt(LowerStr(full_text), h, kw)

\* Preprocess took the step in which no call of the normalizer raised
NormalizerSucceeded == pc = "preprocess" /\ image' = preprocess_image(image, 0)

\* x * 1500 / width rounded to the nearest integer
NearestScaled(x, width) == (2 * x * 1500 + width) \div (2 * width)

\* C20, as claimed: when the normalizer succeeds on an image of width w below
\* 1000 and height h, the image it returns is exactly 1500 wide and
\* h * 1500 / w, rounded to the nearest integer, high; an image at least 1000
\* wide keeps its width and height.
C20_ResizeIsExact ==
  [][NormalizerSucceeded =>
       IF image.width < 1000
       THEN /\ image'.width = 1500
            /\ image'.height = NearestScaled(image.height, image.width)
       ELSE /\ image'.width = image.width
            /\ image'.height = image.height]_vars

\* the record a call returns when it runs alone on content r, for the day
\* now of the call and the year padding pad_year of the platform
ResultAlone(r, now, pad_year) ==
  IF ~r.decodes
  THEN empty_response(FailedMessage(<<"cannot identify image file">>), now, TRUE)
  ELSE IF r.text = None
  THEN empty_response(FailedMessage(<<"tesseract failed">>), now, TRUE)
  ELSE IF low_signal(r.text)
  THEN empty_response(NoTextMessage, now, TRUE)
  ELSE [extracted_data(r.text, None) EXCEPT !.date = extract_date(r.text, now, pad_year)]

ResultsAlone ==
  [r \in Receipts |-> {ResultAlone(r, now, pad_year) : now \in Todays, pad_year \in BOOLEAN}]

\* C16: whatever the interleaving of the calls on the singleton, a call that
\* has returned has returned a record that it returns when it runs alone on
\* its own content, and until then it has no record.
C16_CallsAreIndependent ==
  \A c \in Calls :
    IF calls[c].pc = "done"
    THEN calls[c].result \in ResultsAlone[calls[c].content]
    ELSE calls[c].result = NoResult

\* two calls that ran at the same time on different receipts with a text
\* have both returned, each with the record of its own receipt
C16_Witness ==
  /\ \A c \in {1, 2} : /\ calls[c].pc = "done"
                       /\ calls[c].overlapped
                       /\ calls[c].content.text # None
                       /\ ~low_signal(calls[c].content.text)
  /\ calls[1].content # calls[2].content
  /\ calls[1].result # calls[2].result
  /\ calls[1].result.amount # None
  /\ calls[2].result.amount = None

\* C21: the normalizer returns either the fully normalized image or, when
\* one of its steps failed, the image it was given.
C21_FailureReturnsOriginal ==
  [][pc = "preprocess" => image' \in {preprocess_image(image, 0), image}]_vars

\* a line from which _extract_description makes a description: longer than
\* 3 characters when stripped, not made of digits, white space and - / : .
\* alone, not one date, and still longer than 3 characters once cleaned
Qualifies(line) ==
  /\ Len(Strip(line)) > 3
  /\ ~NumericLine(Strip(line))
  /\ ~DateLine(Strip(line))
  /\ Len(Strip(CleanLine(Strip(line)))) > 3

\* the numbers of the lines of text that qualify
QualifyingLines(text) ==
  {i \in 1..Len(SplitLines(text)) : Qualifies(SplitLines(text)[i])}

\* C22: the description is the cleaned form of the earliest of the first 5
\* lines that qualifies, and it is absent when none of the first 5 lines
\* qualifies, whatever the later lines are.
C22_DescriptionFromFirstFiveLines ==
  Extracted =>
    \A q \in {QualifyingLines(full_text) \cap (1..5)} :
      IF q = {}
      THEN result.description = None
      ELSE result.description =
             Truncate(Strip(CleanLine(Strip(SplitLines(full_text)[Min(q)]))), 100)

\* the sixth line of the text qualifies, none of the first five does, and
\* the description is absent
C22_Witness ==
  /\ Extracted
  /\ 6 \in QualifyingLines(full_text)
  /\ QualifyingLines(full_text) \cap (1..5) = {}
  /\ result.description = None

\* a line made up only of digits and punctuation: it has no letter, and
\* something other than white space
DigitsAndPunctuation(line) ==
  /\ Strip(line) # <<>>
  /\ \A i \in 1..Len(line) : ~IsAlpha(line[i])

\* C23, as claimed: no description is derived from a line made up only of
\* digits and punctuation, so the description of a text whose first five
\* lines are all such lines or blank is absent.
C23_NumericLinesAreRejected ==
  Extracted =>
    ((\A i \in 1..Len(FirstN(SplitLines(full_text), 5)) :
        LET line == SplitLines(full_text)[i]
        IN  Strip(line) = <<>> \/ DigitsAndPunctuation(line))
     => result.description = None)

\* the stripped run captured by pattern k of _extract_employee at its
\* leftmost match in text, or None when the pattern does not match
CapturedName(text, k) ==
  LET p  == employee_patterns[k]
      at == EmployeeSearch(text, p)
  IN  IF at = 0 THEN None ELSE Strip(EmployeeGroup(text, at, p))

\* the capture is between 2 and 50 characters long, both excluded, and has
\* no digit
AcceptableName(name) ==
  /\ name # None
  /\ 2 < Len(name) /\ Len(name) < 50
  /\ \A i \in 1..Len(name) : ~IsDigit(name[i])

\* name with the first letter of each word in upper case and its other
\* letters in lower case
RECURSIVE TitleCased(_, _)
TitleCased(name, after_letter) ==
  IF name = <<>> THEN <<>>
  ELSE <<IF after_letter THEN Lower(Head(name)) ELSE Upper(Head(name))>>
       \o TitleCased(Tail(name), IsAlpha(Head(name)))

\* C24: the employee is the title-cased capture of the first of the two
\* patterns whose capture is acceptable, and absent when neither pattern
\* matches or no capture is acceptable.
C24_EmployeeIsAcceptableCapture ==
  Extracted =>
    \A names \in {[k \in 1..2 |-> CapturedName(full_text, k)]} :
      IF AcceptableName(names[1]) THEN result.employee = TitleCased(names[1], FALSE)
      ELSE IF AcceptableName(names[2]) THEN result.employee = TitleCased(names[2], FALSE)
      ELSE result.employee = None

\* a capture of 2 characters and one of 50 are refused, and the employee is
\* absent although a title matched
C24_Witness ==
  /\ Extracted
  /\ CapturedName(full_text, 1) = None
  /\ CapturedName(full_text, 2) # None
  /\ Len(CapturedName(full_text, 2)) \in {2, 50}
  /\ result.employee = None

\* a label's capture is returned in title case
C24_WitnessAccepted ==
  /\ Extracted
  /\ AcceptableName(CapturedName(full_text, 1))
  /\ result.employee # CapturedName(full_text, 1)
  /\ result.employee = TitleCased(CapturedName(full_text, 1), FALSE)

\* the numbers of the lines of text, as split at its newlines, in which one
\* of note, remark, comment and memo occurs in any case
KeywordLines(text) ==
  {i \in 1..Len(SplitLines(text)) :
     \E k \in 1..Len(remark_keywords) :
       Contains(LowerStr(SplitLines(text)[i]), remark_keywords[k])}

\* C25: the remark is the line after the first line with a keyword,
\* stripped and cut to 200 characters; it is absent when no line has a
\* keyword and when the first line with one is the last line of the text.
C25_RemarkFollowsFirstKeywordLine ==
  Extracted =>
    \A ks \in {KeywordLines(full_text)} :
      IF ks = {} \/ Min(ks) = Len(SplitLines(full_text))
      THEN result.remark = None
      ELSE \A next \in {Strip(SplitLines(full_text)[Min(ks) + 1])} :
             /\ Len(result.remark) <= 200
             /\ result.remark = SubSeq(next, 1, Len(result.remark))
             /\ Len(result.remark) < 200 => result.remark = next

\* the line after the keyword line is longer than 200 characters and the
\* remark is its first 200
C25_Witness ==
  /\ Extracted
  /\ KeywordLines(full_text) = {1}
  /\ Len(SplitLines(full_text)) >= 2
  /\ Len(Strip(SplitLines(full_text)[2])) > 200
  /\ result.remark # None
  /\ Len(result.remark) = 200

\* the only keyword line is the last line and the remark is absent
C25_WitnessLastLine ==
  /\ Extracted
  /\ KeywordLines(full_text) = {Len(SplitLines(full_text))}
  /\ result.remark = None

\* the labels of amounts in the order in which they are tried
Labels ==
  << << <<"t","o","t","a","l">> >>,
     << <<"a","m","o","u","n","t">> >>,
     << <<"g","r","a","n","d">>, <<"t","o","t","a","l">> >>,
     << <<"b","a","l","a","n","c","e">> >> >>

\* where the leftmost match of label k with a value after it starts in
\* text, or 0
LabelledAt(text, k) == AmountSearch(text, [label |-> Labels[k]])

\* the value that follows label k at its leftmost match, without commas
LabelledValue(text, k) == CandidateValue(text, [label |-> Labels[k]])

\* label k is followed by a value that validates
LabelledValid(text, k) ==
  LabelledAt(text, k) # 0 /\ Validates(LabelledValue(text, k))

\* C26: the amount is the valid value of the first label, in the order
\* total, amount, grand total, balance, that has one, wherever the values of
\* the later labels are in the text.
C26_LabelOrderDecides ==
  Extracted =>
    \A k \in 1..Len(Labels) :
      (LabelledValid(full_text, k) /\ \A j \in 1..(k - 1) : ~LabelledValid(full_text, j))
        => result.amount = LabelledValue(full_text, k)

\* a valid value under the label amount comes first in the text, the label
\* total is matched after it, inside "Subtotal", and its value is returned
C26_Witness ==
  /\ Extracted
  /\ LabelledValid(full_text, 1) /\ LabelledValid(full_text, 2)
  /\ LabelledAt(full_text, 2) < LabelledAt(full_text, 1)
  /\ LabelledAt(full_text, 1) > 1
  /\ LowerStr(SubSeq(full_text, LabelledAt(full_text, 1) - 3, LabelledAt(full_text, 1) - 1))
       = <<"s", "u", "b">>
  /\ LabelledValue(full_text, 1) # LabelledValue(full_text, 2)
  /\ result.amount = LabelledValue(full_text, 1)

\* a character that can be part of a numeric date: a digit, - or /
IsDateChar(c) == IsDigit(c) \/ c \in {"-", "/"}

\* the ten characters of text from i on are a valid date of a year from 1000
\* to 9999 written as YYYY-MM-DD, and no character of a date touches them
IsoDateAt(text, i) ==
  /\ i + 9 <= Len(text)
  /\ \A k \in {0, 1, 2, 3, 5, 6, 8, 9} : IsDigit(text[i + k])
  /\ text[i + 4] = "-" /\ text[i + 7] = "-"
  /\ text[i] # "0"
  /\ ValidDate([y |-> StrToInt(SubSeq(text, i, i + 3)),
                m |-> StrToInt(SubSeq(text, i + 5, i + 6)),
                d |-> StrToInt(SubSeq(text, i + 8, i + 9))])
  /\ i > 1 => ~IsDateChar(text[i - 1])
  /\ i + 10 <= Len(text) => ~IsDateChar(text[i + 10])

\* the date at i is the only date-shaped token of text: every match of a
\* date pattern, at any index, lies within its ten characters
OnlyDateAt(text, i) ==
  /\ IsoDateAt(text, i)
  /\ \A k \in 1..Len(date_patterns), j \in 1..Len(text) :
       ElemsEnd(text, j, date_patterns[k]) # 0
         => j >= i /\ ElemsEnd(text, j, date_patterns[k]) <= i + 10

\* C27: for a text whose only date-shaped token is a valid date of a
\* four-digit year written as YYYY-MM-DD, the date is that same string,
\* whatever the current date is.
C27_DateIsIdempotent ==
  Extracted =>
    \A i \in 1..Len(full_text) :
      OnlyDateAt(full_text, i) => result.date = SubSeq(full_text, i, i + 9)

\* the text has one date, written as the extractor prints dates, which is
\* not the date of a day of the request, and it is returned
C27_Witness ==
  /\ Extracted
  /\ \E i \in 2..Len(full_text) :
       /\ OnlyDateAt(full_text, i)
       /\ result.date = SubSeq(full_text, i, i + 9)
  /\ result.date \notin PrintedToday

====
